---------------------------- MODULE Spec2Model ----------------------------
(***************************************************************************)
(* Model of ascii_generator.py: the 5x7 glyph table, render_text and the   *)
(* command-line entry point main.                                          *)
(*                                                                         *)
(* A Python str is modelled as a sequence of one-character strings, so     *)
(* "AB" is <<"A", "B">>.  An optional value (None or a value) is a record  *)
(* [some |-> BOOLEAN, val |-> value].                                      *)
(***************************************************************************)
EXTENDS Integers, Sequences, FiniteSets, TLC

\* ------------------------------------------------------------------ bounds
MaxLen == 2

MaxScale == 2

MaxSpacing == 1

\* ------------------------------------------------------- program constants
FONT_5x7 ==
    ( "A" :> << <<"0","1","1","1","0">>, <<"1","0","0","0","1">>, <<"1","0","0","0","1">>, <<"1","1","1","1","1">>, <<"1","0","0","0","1">>, <<"1","0","0","0","1">>, <<"1","0","0","0","1">> >> @@
      "B" :> << <<"1","1","1","1","0">>, <<"1","0","0","0","1">>, <<"1","0","0","0","1">>, <<"1","1","1","1","0">>, <<"1","0","0","0","1">>, <<"1","0","0","0","1">>, <<"1","1","1","1","0">> >> @@
      "C" :> << <<"0","1","1","1","1">>, <<"1","0","0","0","0">>, <<"1","0","0","0","0">>, <<"1","0","0","0","0">>, <<"1","0","0","0","0">>, <<"1","0","0","0","0">>, <<"0","1","1","1","1">> >> @@
      "D" :> << <<"1","1","1","1","0">>, <<"1","0","0","0","1">>, <<"1","0","0","0","1">>, <<"1","0","0","0","1">>, <<"1","0","0","0","1">>, <<"1","0","0","0","1">>, <<"1","1","1","1","0">> >> @@
      "E" :> << <<"1","1","1","1","1">>, <<"1","0","0","0","0">>, <<"1","0","0","0","0">>, <<"1","1","1","1","0">>, <<"1","0","0","0","0">>, <<"1","0","0","0","0">>, <<"1","1","1","1","1">> >> @@
      "F" :> << <<"1","1","1","1","1">>, <<"1","0","0","0","0">>, <<"1","0","0","0","0">>, <<"1","1","1","1","0">>, <<"1","0","0","0","0">>, <<"1","0","0","0","0">>, <<"0","0","0","0","0">> >> @@
      "G" :> << <<"0","1","1","1","1">>, <<"1","0","0","0","0">>, <<"1","0","0","0","0">>, <<"1","0","0","1","1">>, <<"1","0","0","0","1">>, <<"1","0","0","0","1">>, <<"0","1","1","1","0">> >> @@
      "H" :> << <<"1","0","0","0","1">>, <<"1","0","0","0","1">>, <<"1","0","0","0","1">>, <<"1","1","1","1","1">>, <<"1","0","0","0","1">>, <<"1","0","0","0","1">>, <<"1","0","0","0","1">> >> @@
      "I" :> << <<"0","1","1","1","0">>, <<"0","0","1","0","0">>, <<"0","0","1","0","0">>, <<"0","0","1","0","0">>, <<"0","0","1","0","0">>, <<"0","0","1","0","0">>, <<"0","1","1","1","0">> >> @@
      "J" :> << <<"0","0","1","1","1">>, <<"0","0","0","1","0">>, <<"0","0","0","1","0">>, <<"0","0","0","1","0">>, <<"1","0","0","1","0">>, <<"1","0","0","1","0">>, <<"0","1","1","0","0">> >> @@
      "K" :> << <<"1","0","0","0","1">>, <<"1","0","0","1","0">>, <<"1","0","1","0","0">>, <<"1","1","0","0","0">>, <<"1","0","1","0","0">>, <<"1","0","0","1","0">>, <<"1","0","0","0","1">> >> @@
      "L" :> << <<"1","0","0","0","0">>, <<"1","0","0","0","0">>, <<"1","0","0","0","0">>, <<"1","0","0","0","0">>, <<"1","0","0","0","0">>, <<"1","0","0","0","0">>, <<"1","1","1","1","1">> >> @@
      "M" :> << <<"1","0","0","0","1">>, <<"1","1","0","1","1">>, <<"1","0","1","0","1">>, <<"1","0","1","0","1">>, <<"1","0","0","0","1">>, <<"1","0","0","0","1">>, <<"1","0","0","0","1">> >> @@
      "N" :> << <<"1","0","0","0","1">>, <<"1","1","0","0","1">>, <<"1","0","1","0","1">>, <<"1","0","0","1","1">>, <<"1","0","0","0","1">>, <<"1","0","0","0","1">>, <<"1","0","0","0","1">> >> @@
      "O" :> << <<"0","1","1","1","0">>, <<"1","0","0","0","1">>, <<"1","0","0","0","1">>, <<"1","0","0","0","1">>, <<"1","0","0","0","1">>, <<"1","0","0","0","1">>, <<"0","1","1","1","0">> >> @@
      "P" :> << <<"1","1","1","1","0">>, <<"1","0","0","0","1">>, <<"1","0","0","0","1">>, <<"1","1","1","1","0">>, <<"1","0","0","0","0">>, <<"1","0","0","0","0">>, <<"0","0","0","0","0">> >> @@
      "Q" :> << <<"0","1","1","1","0">>, <<"1","0","0","0","1">>, <<"1","0","0","0","1">>, <<"1","0","0","0","1">>, <<"1","0","1","0","1">>, <<"1","0","0","1","0">>, <<"0","1","1","0","1">> >> @@
      "R" :> << <<"1","1","1","1","0">>, <<"1","0","0","0","1">>, <<"1","0","0","0","1">>, <<"1","1","1","1","0">>, <<"1","0","1","0","0">>, <<"1","0","0","1","0">>, <<"1","0","0","0","1">> >> @@
      "S" :> << <<"0","1","1","1","1">>, <<"1","0","0","0","0">>, <<"1","0","0","0","0">>, <<"0","1","1","1","0">>, <<"0","0","0","0","1">>, <<"0","0","0","0","1">>, <<"1","1","1","1","0">> >> @@
      "T" :> << <<"1","1","1","1","1">>, <<"0","0","1","0","0">>, <<"0","0","1","0","0">>, <<"0","0","1","0","0">>, <<"0","0","1","0","0">>, <<"0","0","1","0","0">>, <<"0","0","1","0","0">> >> @@
      "U" :> << <<"1","0","0","0","1">>, <<"1","0","0","0","1">>, <<"1","0","0","0","1">>, <<"1","0","0","0","1">>, <<"1","0","0","0","1">>, <<"1","0","0","0","1">>, <<"0","1","1","1","0">> >> @@
      "V" :> << <<"1","0","0","0","1">>, <<"1","0","0","0","1">>, <<"1","0","0","0","1">>, <<"1","0","0","0","1">>, <<"1","0","0","0","1">>, <<"0","1","0","1","0">>, <<"0","0","1","0","0">> >> @@
      "W" :> << <<"1","0","0","0","1">>, <<"1","0","0","0","1">>, <<"1","0","0","0","1">>, <<"1","0","1","0","1">>, <<"1","0","1","0","1">>, <<"1","1","0","1","1">>, <<"1","0","0","0","1">> >> @@
      "X" :> << <<"1","0","0","0","1">>, <<"1","0","0","0","1">>, <<"0","1","0","1","0">>, <<"0","0","1","0","0">>, <<"0","1","0","1","0">>, <<"1","0","0","0","1">>, <<"1","0","0","0","1">> >> @@
      "Y" :> << <<"1","0","0","0","1">>, <<"1","0","0","0","1">>, <<"0","1","0","1","0">>, <<"0","0","1","0","0">>, <<"0","0","1","0","0">>, <<"0","0","1","0","0">>, <<"0","0","1","0","0">> >> @@
      "Z" :> << <<"1","1","1","1","1">>, <<"0","0","0","0","1">>, <<"0","0","0","1","0">>, <<"0","0","1","0","0">>, <<"0","1","0","0","0">>, <<"1","0","0","0","0">>, <<"1","1","1","1","1">> >> @@
      "0" :> << <<"0","1","1","1","0">>, <<"1","0","0","0","1">>, <<"1","0","0","1","1">>, <<"1","0","1","0","1">>, <<"1","1","0","0","1">>, <<"1","0","0","0","1">>, <<"0","1","1","1","0">> >> @@
      "1" :> << <<"0","0","1","0","0">>, <<"0","1","1","0","0">>, <<"0","0","1","0","0">>, <<"0","0","1","0","0">>, <<"0","0","1","0","0">>, <<"0","0","1","0","0">>, <<"0","1","1","1","0">> >> @@
      "2" :> << <<"0","1","1","1","0">>, <<"1","0","0","0","1">>, <<"0","0","0","0","1">>, <<"0","0","0","1","0">>, <<"0","0","1","0","0">>, <<"0","1","0","0","0">>, <<"1","1","1","1","1">> >> @@
      "3" :> << <<"0","1","1","1","0">>, <<"1","0","0","0","1">>, <<"0","0","0","0","1">>, <<"0","0","1","1","0">>, <<"0","0","0","0","1">>, <<"1","0","0","0","1">>, <<"0","1","1","1","0">> >> @@
      "4" :> << <<"0","0","0","1","0">>, <<"0","0","1","1","0">>, <<"0","1","0","1","0">>, <<"1","0","0","1","0">>, <<"1","1","1","1","1">>, <<"0","0","0","1","0">>, <<"0","0","0","1","0">> >> @@
      "5" :> << <<"1","1","1","1","1">>, <<"1","0","0","0","0">>, <<"1","0","0","0","0">>, <<"1","1","1","1","0">>, <<"0","0","0","0","1">>, <<"1","0","0","0","1">>, <<"0","1","1","1","0">> >> @@
      "6" :> << <<"0","0","1","1","0">>, <<"0","1","0","0","0">>, <<"1","0","0","0","0">>, <<"1","1","1","1","0">>, <<"1","0","0","0","1">>, <<"1","0","0","0","1">>, <<"0","1","1","1","0">> >> @@
      "7" :> << <<"1","1","1","1","1">>, <<"0","0","0","0","1">>, <<"0","0","0","1","0">>, <<"0","0","1","0","0">>, <<"0","1","0","0","0">>, <<"0","1","0","0","0">>, <<"0","1","0","0","0">> >> @@
      "8" :> << <<"0","1","1","1","0">>, <<"1","0","0","0","1">>, <<"1","0","0","0","1">>, <<"0","1","1","1","0">>, <<"1","0","0","0","1">>, <<"1","0","0","0","1">>, <<"0","1","1","1","0">> >> @@
      "9" :> << <<"0","1","1","1","0">>, <<"1","0","0","0","1">>, <<"1","0","0","0","1">>, <<"0","1","1","1","1">>, <<"0","0","0","0","1">>, <<"0","0","0","1","0">>, <<"0","1","1","0","0">> >> @@
      " " :> << <<"0","0","0","0","0">>, <<"0","0","0","0","0">>, <<"0","0","0","0","0">>, <<"0","0","0","0","0">>, <<"0","0","0","0","0">>, <<"0","0","0","0","0">>, <<"0","0","0","0","0">> >> @@
      "." :> << <<"0","0","0","0","0">>, <<"0","0","0","0","0">>, <<"0","0","0","0","0">>, <<"0","0","0","0","0">>, <<"0","0","0","0","0">>, <<"0","1","1","0","0">>, <<"0","1","1","0","0">> >> @@
      "," :> << <<"0","0","0","0","0">>, <<"0","0","0","0","0">>, <<"0","0","0","0","0">>, <<"0","0","0","0","0">>, <<"0","0","0","0","0">>, <<"0","1","1","0","0">>, <<"0","1","0","0","0">> >> @@
      "!" :> << <<"0","0","1","0","0">>, <<"0","0","1","0","0">>, <<"0","0","1","0","0">>, <<"0","0","1","0","0">>, <<"0","0","1","0","0">>, <<"0","0","0","0","0">>, <<"0","0","1","0","0">> >> @@
      "?" :> << <<"0","1","1","1","0">>, <<"1","0","0","0","1">>, <<"0","0","0","0","1">>, <<"0","0","0","1","0">>, <<"0","0","1","0","0">>, <<"0","0","0","0","0">>, <<"0","0","1","0","0">> >> @@
      "-" :> << <<"0","0","0","0","0">>, <<"0","0","0","0","0">>, <<"0","0","0","0","0">>, <<"1","1","1","1","1">>, <<"0","0","0","0","0">>, <<"0","0","0","0","0">>, <<"0","0","0","0","0">> >> @@
      "'" :> << <<"0","0","1","0","0">>, <<"0","0","1","0","0">>, <<"0","0","0","0","0">>, <<"0","0","0","0","0">>, <<"0","0","0","0","0">>, <<"0","0","0","0","0">>, <<"0","0","0","0","0">> >> @@
      ":" :> << <<"0","0","0","0","0">>, <<"0","1","1","0","0">>, <<"0","1","1","0","0">>, <<"0","0","0","0","0">>, <<"0","1","1","0","0">>, <<"0","1","1","0","0">>, <<"0","0","0","0","0">> >> )

SIZE_PRESETS == ("small" :> 1 @@ "medium" :> 2 @@ "large" :> 4 @@ "huge" :> 8)

\* str.upper() on the characters the model uses: the ASCII lowercase letters
\* map to their capitals, every other character of the model is unchanged.
UpperTable ==
    ("a" :> "A" @@ "b" :> "B" @@ "c" :> "C" @@ "d" :> "D" @@ "e" :> "E" @@ "f" :> "F" @@
    "g" :> "G" @@ "h" :> "H" @@ "i" :> "I" @@ "j" :> "J" @@ "k" :> "K" @@ "l" :> "L" @@
    "m" :> "M" @@ "n" :> "N" @@ "o" :> "O" @@ "p" :> "P" @@ "q" :> "Q" @@ "r" :> "R" @@
    "s" :> "S" @@ "t" :> "T" @@ "u" :> "U" @@ "v" :> "V" @@ "w" :> "W" @@ "x" :> "X" @@
    "y" :> "Y" @@ "z" :> "Z")

Upper_NoFold(ch) == ch

Upper(ch) == IF ch \in DOMAIN UpperTable THEN UpperTable[ch] ELSE ch

\* str.lower() (used by callers that pass a text in another letter case)
Lower(ch) ==
    IF \E l \in DOMAIN UpperTable : UpperTable[l] = ch
    THEN CHOOSE l \in DOMAIN UpperTable : UpperTable[l] = ch
    ELSE ch

\* the characters str.rstrip() with no argument removes (those the model uses)
Whitespace == {" ", "\t", "\n", "\r"}

\* ---------------------------------------------------------- pure helpers
RECURSIVE Repeat(_, _)
\* s * n on Python strings: n copies of s, empty when n <= 0
Repeat(s, n) == IF n <= 0 THEN <<>> ELSE s \o Repeat(s, n - 1)

RECURSIVE RStrip(_)
\* r.rstrip()
RStrip(s) ==
    IF s = <<>> THEN s
    ELSE IF s[Len(s)] \in Whitespace THEN RStrip(SubSeq(s, 1, Len(s) - 1))
    ELSE s

RECURSIVE RStripNewlines(_)
\* s.rstrip("\n")
RStripNewlines(s) ==
    IF s = <<>> THEN s
    ELSE IF s[Len(s)] = "\n" THEN RStripNewlines(SubSeq(s, 1, Len(s) - 1))
    ELSE s

ScaleInvalid_Negative(s) == s < 0

\* the guard of render_text: scale < 1
ScaleInvalid(s) == s < 1

Cell_Inverted(bit, d, s) == IF bit = "0" THEN Repeat(d, s) ELSE Repeat(<<" ">>, s)

Cell_WideBlank(bit, d, s) == IF bit = "1" THEN Repeat(d, s) ELSE Repeat(<<" ">>, s * Len(d))

\* (draw * scale) if bit == "1" else (" " * scale)
Cell(bit, d, s) == IF bit = "1" THEN Repeat(d, s) ELSE Repeat(<<" ">>, s)

RECURSIVE OutRowFrom(_, _, _, _)
OutRowFrom(row_pattern, j, d, s) ==
    IF j > Len(row_pattern) THEN <<>>
    ELSE Cell(row_pattern[j], d, s) \o OutRowFrom(row_pattern, j + 1, d, s)

\* out_row after the loop over the bits of row_pattern
OutRow(row_pattern, d, s) == OutRowFrom(row_pattern, 1, d, s)

Separator_Scaled(sp, s) == Repeat(<<" ">>, sp * s)

\* sep = " " * spacing  (the scale is not used)
Separator(sp, s) == Repeat(<<" ">>, sp)

Placeholder_Row3 ==
    [[r \in 1..7 |-> <<"0", "0", "0", "0", "0">>] EXCEPT ![3] = <<"0", "0", "1", "0", "0">>]

\* the placeholder of an unknown character: ["00000"] * 7 with bitmap[3] = "00100"
Placeholder ==
    [[r \in 1..7 |-> <<"0", "0", "0", "0", "0">>] EXCEPT ![4] = <<"0", "0", "1", "0", "0">>]

FontAfterLookup_Cached(f, k) ==
    IF k \in DOMAIN f THEN f ELSE [c \in DOMAIN f \cup {k} |-> IF c = k THEN Placeholder ELSE f[c]]

\* FONT_5x7.get(key) and the placeholder assignment leave the table as it is
FontAfterLookup(f, k) == f

RowIndex_Interleaved(r_i, v, s) == r_i + v * 7

\* r_i * scale + v, the 0-based index of the accumulator row
RowIndex(r_i, v, s) == r_i * s + v

RECURSIVE AppendCopies(_, _, _, _, _)
\* for v in range(scale): rows[r_i * scale + v] += out_row + sep
AppendCopies(rs, r_i, v, s, piece) ==
    IF v >= s THEN rs
    ELSE AppendCopies([rs EXCEPT ![RowIndex(r_i, v, s) + 1] = @ \o piece], r_i, v + 1, s, piece)

RECURSIVE AppendGlyph(_, _, _, _, _, _)
\* for r_i, row_pattern in enumerate(bitmap): ... (r_i is 0-based as in the code)
AppendGlyph(rs, bm, r_i, d, s, sp) ==
    IF r_i >= Len(bm) THEN rs
    ELSE AppendGlyph(AppendCopies(rs, r_i, 0, s, OutRow(bm[r_i + 1], d, s) \o sp),
                     bm, r_i + 1, d, s, sp)

RECURSIVE JoinFrom(_, _)
JoinFrom(rs, k) ==
    IF k > Len(rs) THEN <<>>
    ELSE (IF k = 1 THEN <<>> ELSE <<"\n">>) \o RStrip(rs[k]) \o JoinFrom(rs, k + 1)

\* "\n".join(r.rstrip() for r in rows) + "\n"
Final(rs) == JoinFrom(rs, 1) \o <<"\n">>

\* ------------------------------------------------------------ input sets
Unknown == {"@", "~"}

Supported == DOMAIN FONT_5x7 \cup DOMAIN UpperTable

SmallAlphabet == {"A", "a", "@", "."}

Texts ==
    {<<c>> : c \in Supported \cup Unknown}
        \cup UNION {[1..n -> SmallAlphabet] : n \in 0..MaxLen}

Draws == {<<>>, <<"#">>, <<" ">>, <<"#", "=">>, <<"#", " ">>}

Scales == {-100} \cup (-1..MaxScale)

Spacings == -1..MaxSpacing

RECURSIVE CaseVariants(_)
\* the texts that differ from t only in the case of their letters
CaseVariants(t) ==
    IF t = <<>> THEN {<<>>}
    ELSE {<<c>> \o u : c \in {t[1], Upper(t[1]), Lower(t[1])}, u \in CaseVariants(Tail(t))}

None == [some |-> FALSE, val |-> <<>>]

Some(v) == [some |-> TRUE, val |-> v]

NoScale == [some |-> FALSE, val |-> 0]

NoPrev == [valid |-> FALSE, text |-> <<>>, final |-> <<>>]

NoArgs ==
    [text |-> None, draw |-> <<>>, scale |-> NoScale, size |-> "large",
     spacing |-> 0, output |-> None, stdin |-> FALSE]

OutPath == <<"o", "u", "t">>

Absent == [exists |-> FALSE, data |-> <<>>]

OldFile == [exists |-> TRUE, data |-> <<"o", "l", "d">>]

\* ------------------------------------------------------------------ state
VARIABLES
    font,      \* FONT_5x7, the module-level glyph table
    pc,        \* render_text: "idle", "loop", "returned" or "raised"
    text, draw, scale, spacing,   \* the arguments of the running render_text
    rows, sep, \* its locals rows and sep
    i,         \* the number of characters of text the loop has consumed
    key, bitmap,                  \* locals of the last loop iteration
    out_rows,  \* the value of out_row for each of the 7 rows of the last glyph
    final,     \* the returned string, once pc = "returned"
    err,       \* the message of the ValueError, once pc = "raised"
    prev,      \* the result of the previous call of a caller that calls twice
    mainpc,    \* main: "none", "parsed", "render" or "exited"
    args,      \* the argparse namespace
    mtext,     \* main's local text
    stdin,     \* the content of standard input
    stdout, stderr,               \* what has been printed
    files,     \* the file at the --output path
    exit       \* the exit status, -1 while the process has not ended

vars ==
    <<font, pc, text, draw, scale, spacing, rows, sep, i, key, bitmap, out_rows,
      final, err, prev, mainpc, args, mtext, stdin, stdout, stderr, files, exit>>

mainVars == <<mainpc, args, mtext, stdin, stdout, stderr, files, exit>>

Init ==
    /\ font = FONT_5x7
    /\ pc = "idle"
    /\ text = <<>> /\ draw = <<>> /\ scale = 0 /\ spacing = 0
    /\ rows = <<>> /\ sep = <<>> /\ i = 0
    /\ key = "" /\ bitmap = <<>> /\ out_rows = <<>>
    /\ final = <<>> /\ err = ""
    /\ prev = NoPrev
    /\ mainpc = "none" /\ args = NoArgs /\ mtext = None /\ stdin = <<>>
    /\ stdout = <<>> /\ stderr = <<>>
    /\ files \in {Absent, OldFile}
    /\ exit = -1

\* ------------------------------------------------------------ render_text
\* entry of render_text(t, draw=d, scale=s, spacing=sp): the scale check, then
\* the initialisation of rows and sep
Enter(t, d, s, sp) ==
    /\ text' = t /\ draw' = d /\ scale' = s /\ spacing' = sp
    /\ IF ScaleInvalid(s)
       THEN /\ pc' = "raised"
            /\ err' = "scale must be >= 1"
            /\ rows' = <<>>
            /\ sep' = <<>>
       ELSE /\ pc' = "loop"
            /\ err' = ""
            /\ rows' = [k \in 1..(7 * s) |-> <<>>]
            /\ sep' = Separator(sp, s)
    /\ i' = 0 /\ key' = "" /\ bitmap' = <<>> /\ out_rows' = <<>>
    /\ final' = <<>>
    /\ font' = font

\* one iteration of "for ch in text" with the bitmap bm found for the character
Iterate(k, bm) ==
    /\ key' = k
    /\ bitmap' = bm
    /\ font' = FontAfterLookup(font, k)
    /\ out_rows' = [r \in 1..Len(bm) |-> OutRow(bm[r], draw, scale)]
    /\ rows' = AppendGlyph(rows, bm, 0, draw, scale, sep)
    /\ i' = i + 1
    /\ UNCHANGED <<pc, text, draw, scale, spacing, sep, final, err, prev>>
    /\ UNCHANGED mainVars

\* the character has a glyph: bitmap = FONT_5x7.get(key)
RenderGlyph ==
    /\ pc = "loop" /\ i < Len(text)
    /\ Upper(text[i + 1]) \in DOMAIN font
    /\ Iterate(Upper(text[i + 1]), font[Upper(text[i + 1])])

\* bitmap is None: the placeholder is drawn
RenderPlaceholder ==
    /\ pc = "loop" /\ i < Len(text)
    /\ Upper(text[i + 1]) \notin DOMAIN font
    /\ Iterate(Upper(text[i + 1]), Placeholder)

\* the loop is over: trim, join and return
RenderReturn ==
    /\ pc = "loop" /\ i = Len(text)
    /\ final' = Final(rows)
    /\ pc' = "returned"
    /\ UNCHANGED <<font, text, draw, scale, spacing, rows, sep, i, key, bitmap,
                   out_rows, err, prev>>
    /\ UNCHANGED mainVars

\* a caller other than main calls render_text
Call ==
    /\ mainpc = "none" /\ pc = "idle"
    /\ \E t \in Texts, d \in Draws, s \in Scales, sp \in Spacings : Enter(t, d, s, sp)
    /\ prev' = NoPrev
    /\ UNCHANGED mainVars

\* that caller calls again with the same text in another letter case
CallAgain ==
    /\ mainpc = "none" /\ pc = "returned"
    /\ prev' = [valid |-> TRUE, text |-> text, final |-> final]
    /\ \E t \in CaseVariants(text) : Enter(t, draw, scale, spacing)
    /\ UNCHANGED mainVars

\* that caller drops the result or the exception
Discard ==
    /\ mainpc = "none" /\ pc \in {"returned", "raised"}
    /\ pc' = "idle"
    /\ text' = <<>> /\ draw' = <<>> /\ scale' = 0 /\ spacing' = 0
    /\ rows' = <<>> /\ sep' = <<>> /\ i' = 0
    /\ key' = "" /\ bitmap' = <<>> /\ out_rows' = <<>>
    /\ final' = <<>> /\ err' = ""
    /\ prev' = NoPrev
    /\ UNCHANGED font
    /\ UNCHANGED mainVars

\* ------------------------------------------------------------------- main
MainTexts == {None, Some(<<>>), Some(<<"A">>), Some(<<"a", "@">>)}

StdinContents == {<<>>, <<"\n">>, <<"A", "\n", "\n">>}

MainScales == {NoScale} \cup {[some |-> TRUE, val |-> s] : s \in -1..MaxScale}

MainSpacings == 0..MaxSpacing

MainOutputs == {None, Some(<<>>), Some(OutPath)}

MainDraws == {<<"#">>}

\* the namespaces parse_args can return, with the standard input they meet
\* (standard input is left unread, hence empty here, without --stdin)
Invocations ==
    {inv \in [args : [text : MainTexts, draw : MainDraws, scale : MainScales,
                      size : DOMAIN SIZE_PRESETS, spacing : MainSpacings,
                      output : MainOutputs, stdin : BOOLEAN],
              stdin : StdinContents] :
        /\ ~inv.args.stdin => inv.stdin = <<>>
        /\ inv.args.stdin => inv.args.text \in {None, Some(<<"A">>)}}

Truthy_NotNone(opt) == opt.some

\* the truth value of a str or None
Truthy(opt) == opt.some /\ opt.val # <<>>

\* text = sys.stdin.read().rstrip("\n") if args.stdin else args.text
ResolveText(a, input) == IF a.stdin THEN Some(RStripNewlines(input)) ELSE a.text

ResolveScale_Falsy(a) ==
    IF a.scale.some /\ a.scale.val # 0 THEN a.scale.val ELSE SIZE_PRESETS[a.size]

\* scale = args.scale if args.scale is not None else SIZE_PRESETS.get(args.size, 4)
ResolveScale(a) == IF a.scale.some THEN a.scale.val ELSE SIZE_PRESETS[a.size]

Help == [kind |-> "help", data |-> <<>>]

\* parse_args and the choice of the text
MainStart ==
    /\ mainpc = "none" /\ pc = "idle"
    /\ \E inv \in Invocations :
        /\ args' = inv.args
        /\ stdin' = inv.stdin
        /\ mtext' = ResolveText(inv.args, inv.stdin)
    /\ mainpc' = "parsed"
    /\ UNCHANGED <<font, pc, text, draw, scale, spacing, rows, sep, i, key, bitmap,
                   out_rows, final, err, prev, stdout, stderr, files, exit>>

\* if not text: parser.print_help(); return
MainHelp ==
    /\ mainpc = "parsed" /\ ~Truthy(mtext)
    /\ stdout' = Append(stdout, Help)
    /\ exit' = 0
    /\ mainpc' = "exited"
    /\ UNCHANGED <<font, pc, text, draw, scale, spacing, rows, sep, i, key, bitmap,
                   out_rows, final, err, prev, args, mtext, stdin, stderr, files>>

\* the scale is resolved and render_text is called
MainRender ==
    /\ mainpc = "parsed" /\ Truthy(mtext)
    /\ Enter(mtext.val, args.draw, ResolveScale(args), args.spacing)
    /\ mainpc' = "render"
    /\ UNCHANGED <<prev, args, mtext, stdin, stdout, stderr, files, exit>>

\* except Exception as e: print("Error:", e, file=sys.stderr); sys.exit(2)
MainError ==
    /\ mainpc = "render" /\ pc = "raised"
    /\ stderr' = Append(stderr, [kind |-> "Error:", data |-> err])
    /\ exit' = 2
    /\ mainpc' = "exited"
    /\ UNCHANGED <<font, pc, text, draw, scale, spacing, rows, sep, i, key, bitmap,
                   out_rows, final, err, prev, args, mtext, stdin, stdout, files>>

\* if args.output: the file is written and the confirmation printed
MainWrite ==
    /\ mainpc = "render" /\ pc = "returned" /\ Truthy(args.output)
    /\ files' = [exists |-> TRUE, data |-> final]
    /\ stdout' = Append(stdout, [kind |-> "wrote", data |-> args.output.val])
    /\ exit' = 0
    /\ mainpc' = "exited"
    /\ UNCHANGED <<font, pc, text, draw, scale, spacing, rows, sep, i, key, bitmap,
                   out_rows, final, err, prev, args, mtext, stdin, stderr>>

\* else: print(out)
MainPrint ==
    /\ mainpc = "render" /\ pc = "returned" /\ ~Truthy(args.output)
    /\ stdout' = Append(stdout, [kind |-> "print", data |-> final \o <<"\n">>])
    /\ exit' = 0
    /\ mainpc' = "exited"
    /\ UNCHANGED <<font, pc, text, draw, scale, spacing, rows, sep, i, key, bitmap,
                   out_rows, final, err, prev, args, mtext, stdin, stderr, files>>

\* ---------------------------------------------------------- specification
Next ==
    \/ Call
    \/ CallAgain
    \/ Discard
    \/ RenderGlyph
    \/ RenderPlaceholder
    \/ RenderReturn
    \/ MainStart
    \/ MainHelp
    \/ MainRender
    \/ MainError
    \/ MainWrite
    \/ MainPrint

Spec == Init /\ [][Next]_vars

\* ------------------------------------------------------ reading the output
RECURSIVE Lines(_)
\* the rows of a returned string: the pieces that each line break ends
Lines(s) ==
    IF s = <<>> THEN <<>>
    ELSE IF \E n \in 1..Len(s) : s[n] = "\n"
         THEN LET n == CHOOSE m \in 1..Len(s) :
                           s[m] = "\n" /\ \A l \in 1..(m - 1) : s[l] # "\n"
              IN  <<SubSeq(s, 1, n - 1)>> \o Lines(SubSeq(s, n + 1, Len(s)))
         ELSE <<s>>

Blank(n) == [c \in 1..n |-> " "]

\* the draw symbol leaves a visible mark: some character of it is not whitespace
HasInk(d) == \E n \in 1..Len(d) : d[n] \notin Whitespace

\* ------------------------------------------------------------------ C1
\* C1: whenever render_text is called with scale < 1 it raises the ValueError
\* "scale must be >= 1" before any row is built: no rows, no iteration, no
\* returned string, whatever the text, the draw symbol and the spacing.
C1_InvalidScaleRaises ==
    (pc # "idle" /\ scale < 1) =>
        /\ pc = "raised"
        /\ err = "scale must be >= 1"
        /\ rows = <<>> /\ i = 0 /\ final = <<>>

C1_Witness ==
    /\ pc = "raised" /\ mainpc = "none"
    /\ scale = 0 /\ text = <<"@">> /\ draw = <<"#", "=">> /\ spacing = -1

\* ------------------------------------------------------------------ C2
C2_Case ==
    /\ pc = "returned" /\ mainpc = "none"
    /\ Len(text) = 1 /\ text[1] \in Supported
    /\ draw = <<"#">> /\ scale = 1 /\ spacing = 0

C2_Bit(r, j) == FONT_5x7[Upper(text[1])][r][j]

\* C2 as stated: render_text(c, "#", 1, 0) of a supported character gives 7
\* rows, each of length exactly 5, cell j of row r being '#' when bit j of row
\* r of the glyph is set and blank otherwise.
C2_RowsOfLengthFive ==
    C2_Case =>
        LET out == Lines(final)
        IN  /\ Len(out) = 7
            /\ \A r \in 1..7 :
                /\ Len(out[r]) = 5
                /\ \A j \in 1..5 : out[r][j] = (IF C2_Bit(r, j) = "1" THEN "#" ELSE " ")

\* C2 amended: 7 rows, each the right-trimmed glyph row: of length at most 5,
\* not ending in a blank, cell j being '#' when bit j is set and, when the bit
\* is unset, blank or past the end of the trimmed row.
C2_RowsAreTrimmedGlyphRows ==
    C2_Case =>
        LET out == Lines(final)
        IN  /\ Len(out) = 7
            /\ \A r \in 1..7 :
                /\ Len(out[r]) <= 5
                /\ Len(out[r]) > 0 => out[r][Len(out[r])] = "#"
                /\ \A j \in 1..5 :
                    IF C2_Bit(r, j) = "1"
                    THEN j <= Len(out[r]) /\ out[r][j] = "#"
                    ELSE j <= Len(out[r]) => out[r][j] = " "

C2_Witness == C2_Case /\ text = <<"a">> /\ Len(Lines(final)[1]) = 4

\* ------------------------------------------------------------------ C3
C3_Case ==
    /\ pc \in {"loop", "returned"}
    /\ Len(text) = 1 /\ i = 1 /\ Len(draw) = 1

\* the s-by-s block of the draw character for every set cell of the glyph
C3_Blocks ==
    LET out == Lines(final)
    IN  \A r \in 1..7, j \in 1..5 :
            bitmap[r][j] = "1" =>
                \A k \in ((r - 1) * scale + 1)..(r * scale),
                   c \in ((j - 1) * scale + 1)..(j * scale) :
                    c <= Len(out[k]) /\ out[k][c] = draw[1]

C3_Shape ==
    /\ Len(rows) = 7 * scale
    /\ \A r \in 1..7 : Len(out_rows[r]) = 5 * scale
    /\ pc = "returned" => Len(Lines(final)) = 7 * scale

\* C3 as stated: for every scale s >= 1 and single-character text with a
\* one-character draw symbol there are 7*s rows, every untrimmed row is 5*s
\* long and every set cell is an s-by-s block of the draw character in the
\* output.
C3_ScaledBlocks ==
    C3_Case => (C3_Shape /\ (pc = "returned" => C3_Blocks))

\* C3 amended: the row count and the untrimmed width hold for every
\* one-character draw symbol; the s-by-s blocks are in the output when the draw
\* character is not whitespace.
C3_ScaledBlocksOfInk ==
    C3_Case => (C3_Shape /\ ((pc = "returned" /\ HasInk(draw)) => C3_Blocks))

C3_Witness ==
    /\ C3_Case /\ pc = "returned"
    /\ text = <<"5">> /\ scale = 2 /\ draw = <<"#">>
    /\ Len(Lines(final)) = 14

\* ------------------------------------------------------------------ C4
C4_Case ==
    /\ pc = "returned"
    /\ Len(text) = 1 /\ Upper(text[1]) \notin DOMAIN FONT_5x7

C4_Centre(k) == k \in (3 * scale + 1)..(4 * scale)

C4_NeverFails ==
    /\ pc = "raised" => scale < 1
    /\ pc = "returned" => (i = Len(text) /\ Len(rows) = 7 * scale)

\* C4 as stated: an unknown character never fails; alone it gives 7*s rows, of
\* which rows 3*s .. 4*s-1 hold the draw symbol in the centre cell and the
\* others are empty.
C4_PlaceholderMark ==
    /\ C4_NeverFails
    /\ C4_Case =>
        LET out == Lines(final)
        IN  /\ Len(out) = 7 * scale
            /\ \A k \in 1..(7 * scale) :
                IF C4_Centre(k)
                THEN /\ out[k] # <<>>
                     /\ out[k] = RStrip(Blank(2 * scale) \o Repeat(draw, scale))
                ELSE out[k] = <<>>

\* C4 amended: as stated when the draw symbol has a character that is not
\* whitespace; with an empty or all-whitespace draw symbol the rows
\* 3*s .. 4*s-1 are trimmed to nothing and all 7*s rows are empty.
C4_PlaceholderMarkOfInk ==
    /\ C4_NeverFails
    /\ C4_Case =>
        LET out == Lines(final)
        IN  /\ Len(out) = 7 * scale
            /\ \A k \in 1..(7 * scale) :
                IF C4_Centre(k) /\ HasInk(draw)
                THEN /\ out[k] # <<>>
                     /\ out[k] = RStrip(Blank(2 * scale) \o Repeat(draw, scale))
                ELSE out[k] = <<>>

C4_Witness ==
    /\ C4_Case /\ text = <<"~">> /\ scale = 2 /\ draw = <<"#">>
    /\ Lines(final)[7] = <<" ", " ", " ", " ", "#", "#">>

\* ------------------------------------------------------------------ C5
C5_Case ==
    /\ pc = "returned" /\ prev.valid
    /\ \A n \in 1..Len(text) : text[n] \in Supported
    /\ Len(prev.text) = Len(text)
    /\ \A n \in 1..Len(text) : Lower(prev.text[n]) = Lower(text[n])

\* C5: two calls with the same draw symbol, scale and spacing whose texts of
\* supported characters differ only in letter case return the same string.
C5_CaseInsensitive == C5_Case => final = prev.final

C5_Witness ==
    /\ C5_Case
    /\ prev.text = <<"A", "a">> /\ text = <<"a", "A">>
    /\ draw = <<"#">> /\ scale = 2 /\ final = prev.final

\* ------------------------------------------------------------------ C6
C6_Case ==
    /\ pc \in {"loop", "returned"} /\ i >= 1
    /\ Len(draw) = 2

\* C6 as stated: with a 2-character draw symbol every glyph column is twice as
\* wide as with a 1-character one, so every expanded row is twice as long.
C6_EveryColumnDoubles ==
    C6_Case =>
        \A r \in 1..7 : Len(out_rows[r]) = 2 * Len(OutRow(bitmap[r], <<"#">>, scale))

C6_Width(bit) == IF bit = "1" THEN Len(draw) * scale ELSE scale

RECURSIVE C6_Offset(_, _)
\* where column j of expanded row r starts
C6_Offset(r, j) ==
    IF j = 1 THEN 0 ELSE C6_Offset(r, j - 1) + C6_Width(bitmap[r][j - 1])

\* C6 amended: only the filled cells widen.  A filled cell is the draw symbol
\* repeated scale times, 2*s wide with a 2-character symbol; an unset cell is
\* s blanks whatever the symbol.
C6_FilledColumnsDouble ==
    C6_Case =>
        \A r \in 1..7 :
            /\ Len(out_rows[r]) = C6_Offset(r, 6)
            /\ \A j \in 1..5 :
                LET cell == SubSeq(out_rows[r], C6_Offset(r, j) + 1, C6_Offset(r, j + 1))
                IN  IF bitmap[r][j] = "1"
                    THEN Len(cell) = 2 * scale /\ cell = Repeat(draw, scale)
                    ELSE Len(cell) = scale /\ cell = Blank(scale)

C6_Witness ==
    /\ C6_Case /\ key = "A" /\ scale = 2 /\ draw = <<"#", "=">>
    /\ Len(out_rows[1]) = 16

\* ------------------------------------------------------------------ C7
C7_Case ==
    /\ mainpc # "none"
    /\ mtext.some /\ mtext.val # <<>>
    /\ args.scale.some /\ args.scale.val < 1

C7_State ==
    C7_Case =>
        /\ stdout = <<>>
        /\ pc \in {"idle", "raised"}
        /\ mainpc = "exited" =>
            /\ exit = 2
            /\ stderr = <<[kind |-> "Error:", data |-> "scale must be >= 1"]>>

\* C7: main with a non-empty text and an explicit scale < 1 (whatever the
\* preset) prints "Error: scale must be >= 1" to the error stream and exits
\* with status 2, prints nothing to standard output and leaves the output file
\* as it was.
C7_InvalidScaleExits2 == []C7_State /\ [][C7_Case => files' = files]_vars

C7_Witness ==
    /\ C7_Case /\ mainpc = "exited" /\ exit = 2
    /\ args.scale.val = 0 /\ args.size = "huge"
    /\ args.output = Some(OutPath) /\ files = OldFile

\* ------------------------------------------------------------------ C8
\* no positional text (or an empty one) without --stdin, or standard input
\* holding nothing but line breaks with --stdin
C8_Case ==
    /\ mainpc # "none"
    /\ IF args.stdin
       THEN \A n \in 1..Len(stdin) : stdin[n] = "\n"
       ELSE ~args.text.some \/ args.text.val = <<>>

C8_State ==
    C8_Case =>
        /\ pc = "idle" /\ final = <<>> /\ mainpc # "render"
        /\ stderr = <<>>
        /\ IF mainpc = "exited" THEN exit = 0 /\ stdout = <<Help>> ELSE stdout = <<>>

\* C8: main with an empty or absent text prints the help and exits with status
\* 0; render_text is never called, nothing else is printed and the output file
\* is left as it was, whatever the other options.
C8_EmptyTextPrintsHelp == []C8_State /\ [][C8_Case => files' = files]_vars

C8_Witness ==
    /\ C8_Case /\ mainpc = "exited" /\ exit = 0 /\ stdout = <<Help>>
    /\ args.stdin /\ stdin = <<"\n">> /\ args.text = Some(<<"A">>)
    /\ args.scale = [some |-> TRUE, val |-> 0] /\ args.output = Some(OutPath)

\* ------------------------------------------------------------------ C9
C9_Glyph(ch) ==
    IF Upper(ch) \in DOMAIN FONT_5x7
    THEN FONT_5x7[Upper(ch)]
    ELSE [r \in 1..7 |-> IF r = 4 THEN <<"0", "0", "1", "0", "0">>
                                  ELSE <<"0", "0", "0", "0", "0">>]

RECURSIVE C9_Expand(_)
C9_Expand(bits) ==
    IF bits = <<>> THEN <<>>
    ELSE (IF Head(bits) = "1" THEN Repeat(draw, scale) ELSE Blank(scale))
             \o C9_Expand(Tail(bits))

RECURSIVE C9_Row(_, _)
\* output row k (0-based) before trimming: for every character, in order, the
\* expansion of bitmap row floor(k / s) followed by spacing blanks
C9_Row(t, k) ==
    IF t = <<>> THEN <<>>
    ELSE C9_Expand(C9_Glyph(Head(t))[(k \div scale) + 1]) \o Blank(spacing)
             \o C9_Row(Tail(t), k)

RECURSIVE C9_Output(_)
C9_Output(k) ==
    IF k >= 7 * scale THEN <<>>
    ELSE RStrip(C9_Row(text, k)) \o <<"\n">> \o C9_Output(k + 1)

\* C9: for scale >= 1 and spacing >= 0 the returned string is, for k = 0 ..
\* 7*s-1, the right-trimmed concatenation over the characters of the expansion
\* of bitmap row floor(k/s) plus spacing blanks, each row followed by a line
\* break; no row ends in whitespace and an empty text gives 7*s empty rows.
C9_OutputRows ==
    (pc = "returned" /\ spacing >= 0) =>
        /\ final = C9_Output(0)
        /\ (\A n \in 1..Len(draw) : draw[n] # "\n") =>
            /\ Len(Lines(final)) = 7 * scale
            /\ \A k \in 1..(7 * scale) :
                LET row == Lines(final)[k]
                IN  row # <<>> => row[Len(row)] \notin Whitespace
        /\ text = <<>> => final = [k \in 1..(7 * scale) |-> "\n"]

C9_Witness ==
    /\ pc = "returned" /\ text = <<"A", ".">> /\ draw = <<"#">>
    /\ scale = 2 /\ spacing = 1
    /\ Lines(final)[13] = <<"#", "#">> \o Blank(6) \o <<"#", "#">>
                             \o Blank(3) \o <<"#", "#", "#", "#">>

\* ----------------------------------------------------------------- C10
\* C10: the glyph table always equals its initial value, every glyph 7 rows of
\* 5 cells, and a call repeated with the same arguments returns the same
\* string as the earlier call.
C10_FontImmutable ==
    /\ font = FONT_5x7
    /\ \A c \in DOMAIN font :
        Len(font[c]) = 7 /\ \A r \in 1..7 : Len(font[c][r]) = 5
    /\ (pc = "returned" /\ prev.valid /\ prev.text = text) => final = prev.final

C10_Witness ==
    /\ pc = "returned" /\ prev.valid /\ prev.text = text
    /\ text = <<"@", "A">> /\ key = "A" /\ bitmap = FONT_5x7["A"]
    /\ font = FONT_5x7 /\ final = prev.final
=============================================================================
